---- MODULE Spec2Model ----
(***************************************************************************)
(* Model of the EFC3 question engine (src/src/question.rs, src/src/card.rs):*)
(* the Questions iterator over a Set, and Question::mc_answers.            *)
(*                                                                         *)
(* A text is a tuple of one-character strings, so that trimming and case   *)
(* folding are computed and not assumed.  A card is named by its index in  *)
(* the Set's vector, which stands for the reference &'a Flashcard / McCard.*)
(***************************************************************************)
EXTENDS Integers, Sequences, FiniteSets, TLC

VARIABLES
    set,            \* the Set the questions borrow
    conditions,     \* the Conditions given to Set::questions
    questions,      \* Questions: the iterator consumed by next()
    yielded,        \* the Questions returned by next() so far, in order
    last_next,      \* what the latest next() returned (NotCalled before any)
    clone,          \* a clone of `questions`, or NoClone
    clone_at,       \* Len(yielded) at the time the clone was taken
    cursor,         \* a second clone taken with it, advanced by its own next()
    for_each_out,   \* what for_each on the clone handed to its closure
    fold_out,       \* what fold on the clone (init 0, acc + 1) returned
    question,       \* the Question mc_answers is called on
    count,          \* mc_answers: the requested count
    overflow_checks,\* build profile: TRUE panics on usize overflow, FALSE wraps
    pc,             \* mc_answers: position in the function
    correct_text,   \* mc_answers: the sampled correct text
    list,           \* mc_answers: the decoys collected so far
    attempts,       \* mc_answers: iterations of the decoy loop started so far
    result,         \* what the latest call on a Question or the Set returned
    match_rules,    \* test_match: the RecallSettings it is called on
    stored,         \* test_match: the stored text (first operand)
    input,          \* test_match, is_correct_answer: the text given by the player
    other_set,      \* a second Set instance, at another address than `set`
    lhs,            \* Question == Question: the left operand
    rhs             \* Question == Question: the right operand

vars == <<set, conditions, questions, yielded, last_next, clone, clone_at, cursor,
          for_each_out, fold_out, question, count, overflow_checks, pc,
          correct_text, list, attempts, result, match_rules, stored, input,
          other_set, lhs, rhs>>

iter_vars == <<questions, yielded, last_next, clone, clone_at, cursor, for_each_out,
              fold_out>>
mc_vars == <<question, count, overflow_checks, pc, correct_text, list, attempts, result>>
match_vars == <<match_rules, stored, input>>
eq_vars == <<other_set, lhs, rhs>>

----------------------------------------------------------------------------
(* Bounds and program constants *)

MaxCount == 5

MaxTextLen == 3

FIND_DECOY_ATTEMPTS == 24

----------------------------------------------------------------------------
(* Option<T> *)

None == [some |-> FALSE, val |-> "None"]
Some(x) == [some |-> TRUE, val |-> x]

Min(a, b) == IF a <= b THEN a ELSE b

----------------------------------------------------------------------------
(* Texts: str::trim and unicase::eq *)

IsWhitespace(ch) == ch = " "

ToFolded(ch) ==
    CASE ch = "A" -> "a"
      [] ch = "B" -> "b"
      [] ch = "X" -> "x"
      [] ch = "Y" -> "y"
      [] OTHER -> ch

RECURSIVE TrimStart(_)
TrimStart(s) ==
    IF s # <<>> /\ IsWhitespace(Head(s)) THEN TrimStart(Tail(s)) ELSE s

RECURSIVE TrimEnd(_)
TrimEnd(s) ==
    IF s # <<>> /\ IsWhitespace(s[Len(s)]) THEN TrimEnd(SubSeq(s, 1, Len(s) - 1)) ELSE s

(* trim that forgets the trailing whitespace *)
Trim_start_only(s) == TrimStart(s)

Trim(s) == TrimEnd(TrimStart(s))

CaseFold(s) == [i \in 1..Len(s) |-> ToFolded(s[i])]

UnicaseEq(a, b) == CaseFold(a) = CaseFold(b)

test_match(rules, a, b) ==
    LET ta == Trim(a)
        tb == Trim(b)
    IN  IF rules.check_caps THEN ta = tb ELSE UnicaseEq(ta, tb)

(* CardSide: the sequence of its text variants *)
any_text(side) ==
    IF side = <<>> THEN {None} ELSE {Some(side[i]) : i \in 1..Len(side)}

(* matches_text that asks every variant to match *)
matches_text_all(side, rules, text) ==
    \A i \in 1..Len(side) : test_match(rules, side[i], text)

matches_text(side, rules, text) ==
    \E i \in 1..Len(side) : test_match(rules, side[i], text)

----------------------------------------------------------------------------
(* The data model of card.rs *)

Front == "Front"
Back == "Back"

(* `!side` that gives the side back *)
Not_same(side) == side

Not(side) == IF side = Front THEN Back ELSE Front

Flashcard(front, back) == [front |-> front, back |-> back]

McCard(q, answer, decoys) == [question |-> q, answer |-> answer, decoys |-> decoys]

RecallSettings(typ, check_caps) == [typ |-> typ, check_caps |-> check_caps]

RecallTypes == {"None", "Mc", "Text"}

CardIndex(card, side) == IF side = Front THEN card.front ELSE card.back

(* the settings of the other side *)
flashcard_recall_settings_swapped(s, side) ==
    IF side = Front THEN s.recall_back ELSE s.recall_front

flashcard_recall_settings(s, side) ==
    IF side = Front THEN s.recall_front ELSE s.recall_back

(* The flashcard vectors the model is run on.  They hold the example of   *)
(* Set::example cut to three cards, cards whose texts match one another   *)
(* under the matching rules, several variants on a side, literally equal  *)
(* texts on different cards, an empty side and two equal cards.           *)
FlashcardLists ==
    { <<>>,
      << Flashcard(<< <<"a">> >>, << <<"0">> >>) >>,
      << Flashcard(<< <<"a">> >>, << <<"0">> >>),
         Flashcard(<< <<"b">> >>, << <<"1">> >>) >>,
      << Flashcard(<< <<"a">> >>, << <<"0">> >>),
         Flashcard(<< <<"b">> >>, << <<"1">> >>),
         Flashcard(<< <<"c">> >>, << <<"2">> >>) >>,
      << Flashcard(<< <<"a">>, <<"A", " ">> >>, << <<"0">> >>),
         Flashcard(<< <<" ", "a">> >>, << <<"1">>, <<"2">> >>),
         Flashcard(<< <<"b">> >>, << <<"1">> >>) >>,
      << Flashcard(<< <<"a">>, <<"b">> >>, << >>),
         Flashcard(<< <<"A">> >>, << <<"1">> >>),
         Flashcard(<< <<"c">> >>, << <<"2">> >>) >>,
      << Flashcard(<< <<"a">> >>, << <<"0">> >>),
         Flashcard(<< <<"a">> >>, << <<"0">> >>) >>,
      << Flashcard(<< <<"a">> >>, << <<"x">> >>),
         Flashcard(<< <<"a">>, <<"A", " ">> >>, << <<"X">> >>),
         Flashcard(<< <<"b">> >>, << <<"y">> >>) >> }

(* The multiple-choice vectors: a card as in Set::example, a card whose    *)
(* decoys hold the answer text and a literal duplicate, a card without     *)
(* decoys, a card without answer and a card with one decoy.                *)
McCardLists ==
    { <<>>,
      << McCard(<< <<"q">> >>, << <<"x">> >>, << <<"y">>, <<"z">>, <<"w">> >>),
         McCard(<< <<"q">>, <<"Q">> >>, << <<"x">>, <<"X">> >>, << <<"y">> >>) >>,
      << McCard(<< <<"q">> >>, << <<"x">> >>, << <<"x">>, <<"y">>, <<"y">> >>),
         McCard(<< <<"q">> >>, << <<"x">> >>, << >>),
         McCard(<< >>, << >>, << <<"y">>, <<"z">> >>) >> }

(* recall_front, recall_back, recall_mc: the defaults, the settings of     *)
(* tests::set_deserialize, two more that switch each axis off once and     *)
(* check capitalisation on every axis once, and one that checks            *)
(* capitalisation for recall_front only with every axis on.                *)
RecallProfiles ==
    { << RecallSettings("Mc", FALSE), RecallSettings("Mc", FALSE), RecallSettings("Mc", FALSE) >>,
      << RecallSettings("Text", TRUE), RecallSettings("None", FALSE), RecallSettings("Mc", FALSE) >>,
      << RecallSettings("Mc", FALSE), RecallSettings("Mc", TRUE), RecallSettings("None", FALSE) >>,
      << RecallSettings("None", TRUE), RecallSettings("Text", FALSE), RecallSettings("Text", TRUE) >>,
      << RecallSettings("Text", TRUE), RecallSettings("Mc", FALSE), RecallSettings("Mc", FALSE) >> }

Sets ==
    { [recall_front |-> p[1], recall_back |-> p[2], recall_mc |-> p[3],
       flashcards |-> f, mc_cards |-> m] :
        p \in RecallProfiles, f \in FlashcardLists, m \in McCardLists }

Conditions(back, front, mc) ==
    [include_card_back |-> back, include_card_front |-> front, include_mc |-> mc]

INCLUDE_ALL == Conditions(TRUE, TRUE, TRUE)

INCLUDE_NONE == Conditions(FALSE, FALSE, FALSE)

POSSIBLE_CONDITIONS ==
    { Conditions(b, f, m) : b \in BOOLEAN, f \in BOOLEAN, m \in BOOLEAN }

----------------------------------------------------------------------------
(* Question and the Questions iterator of question.rs *)

from_flashcard(card, side) == [ty |-> "Flashcard", card |-> card, side |-> side]

from_mc_card(card) == [ty |-> "McCard", card |-> card, side |-> "NA"]

(* slice::Iter over a vector: the indices still to be visited, in order *)
SliceIter(v) == [i \in 1..Len(v) |-> i]

EmptyIter == <<>>

(* questions_inner with the back category gated by recall_front *)
questions_inner_swapped(s, c) ==
    [flashcards_front |->
        IF c.include_card_front /\ s.recall_front.typ # "None"
        THEN SliceIter(s.flashcards) ELSE EmptyIter,
     flashcards_back |->
        IF c.include_card_back /\ s.recall_front.typ # "None"
        THEN SliceIter(s.flashcards) ELSE EmptyIter,
     mc_cards |->
        IF c.include_mc /\ s.recall_mc.typ # "None"
        THEN SliceIter(s.mc_cards) ELSE EmptyIter]

questions_inner(s, c) ==
    [flashcards_front |->
        IF c.include_card_front /\ s.recall_front.typ # "None"
        THEN SliceIter(s.flashcards) ELSE EmptyIter,
     flashcards_back |->
        IF c.include_card_back /\ s.recall_back.typ # "None"
        THEN SliceIter(s.flashcards) ELSE EmptyIter,
     mc_cards |->
        IF c.include_mc /\ s.recall_mc.typ # "None"
        THEN SliceIter(s.mc_cards) ELSE EmptyIter]

(* next() that asks flashcards_front before flashcards_back *)
QuestionsNext_front_first(it) ==
    IF it.flashcards_front # <<>>
    THEN [item |-> Some(from_flashcard(Head(it.flashcards_front), Front)),
          iter |-> [it EXCEPT !.flashcards_front = Tail(@)]]
    ELSE IF it.flashcards_back # <<>>
    THEN [item |-> Some(from_flashcard(Head(it.flashcards_back), Back)),
          iter |-> [it EXCEPT !.flashcards_back = Tail(@)]]
    ELSE IF it.mc_cards # <<>>
    THEN [item |-> Some(from_mc_card(Head(it.mc_cards))),
          iter |-> [it EXCEPT !.mc_cards = Tail(@)]]
    ELSE [item |-> None, iter |-> it]

(* Iterator::next: the item and the iterator after the call *)
QuestionsNext(it) ==
    IF it.flashcards_back # <<>>
    THEN [item |-> Some(from_flashcard(Head(it.flashcards_back), Back)),
          iter |-> [it EXCEPT !.flashcards_back = Tail(@)]]
    ELSE IF it.flashcards_front # <<>>
    THEN [item |-> Some(from_flashcard(Head(it.flashcards_front), Front)),
          iter |-> [it EXCEPT !.flashcards_front = Tail(@)]]
    ELSE IF it.mc_cards # <<>>
    THEN [item |-> Some(from_mc_card(Head(it.mc_cards))),
          iter |-> [it EXCEPT !.mc_cards = Tail(@)]]
    ELSE [item |-> None, iter |-> it]

(* len() that forgets the mc cards *)
QuestionsLen_no_mc(it) ==
    Len(it.flashcards_back) + Len(it.flashcards_front)

QuestionsLen(it) ==
    Len(it.flashcards_back) + Len(it.flashcards_front) + Len(it.mc_cards)

size_hint(it) == << QuestionsLen(it), Some(QuestionsLen(it)) >>

QuestionsCount(it) == QuestionsLen(it)

(* for_each that visits flashcards_front before flashcards_back *)
QuestionsForEach_front_first(it) ==
    [i \in 1..Len(it.flashcards_front) |-> from_flashcard(it.flashcards_front[i], Front)]
    \o [i \in 1..Len(it.flashcards_back) |-> from_flashcard(it.flashcards_back[i], Back)]
    \o [i \in 1..Len(it.mc_cards) |-> from_mc_card(it.mc_cards[i])]

(* Iterator::for_each: the items handed to the closure, in call order *)
QuestionsForEach(it) ==
    [i \in 1..Len(it.flashcards_back) |-> from_flashcard(it.flashcards_back[i], Back)]
    \o [i \in 1..Len(it.flashcards_front) |-> from_flashcard(it.flashcards_front[i], Front)]
    \o [i \in 1..Len(it.mc_cards) |-> from_mc_card(it.mc_cards[i])]

(* slice iterator fold with the closure f(acc, item) = Append(acc, item) *)
RECURSIVE FoldMap(_, _, _)
FoldMap(acc, idx, mk) ==
    IF idx = <<>> THEN acc
    ELSE FoldMap([n |-> acc.n + 1, items |-> Append(acc.items, IF mk = "Mc" THEN from_mc_card(Head(idx)) ELSE from_flashcard(Head(idx), mk))],
                 Tail(idx), mk)

(* Iterator::fold from init: counts the items as tests::questions_fold     *)
(* does and records them                                                   *)
QuestionsFold(it, init) ==
    LET acc1 == FoldMap(init, it.flashcards_back, Back)
        acc2 == FoldMap(acc1, it.flashcards_front, Front)
    IN  FoldMap(acc2, it.mc_cards, "Mc")

----------------------------------------------------------------------------
(* Question::mc_answers of question.rs *)

McList(l, correct_index) == [list |-> l, correct_index |-> correct_index]

(* McList::correct_index and McList::correct; the index is 0-based *)
correct_index(ml) == ml.correct_index

correct(ml) == ml.list[correct_index(ml) + 1]

(* insert that puts the element one place too far *)
Insert_after(l, index, x) ==
    SubSeq(l, 1, index + 1) \o <<x>> \o SubSeq(l, index + 2, Len(l))

(* Vec::insert at a 0-based index *)
Insert(l, index, x) == SubSeq(l, 1, index) \o <<x>> \o SubSeq(l, index + 1, Len(l))

Contains(l, x) == \E i \in 1..Len(l) : l[i] = x

(* the sequences of k pairwise different indices of 1..n *)
RECURSIVE DistinctIndices(_, _)
DistinctIndices(n, k) ==
    IF k = 0 THEN { <<>> }
    ELSE UNION { { Append(t, i) : i \in { j \in 1..n : ~Contains(t, j) } } :
                 t \in DistinctIndices(n, k - 1) }

(* a choice that may take the same position more than once *)
choose_multiple_with_repeats(v, amount) ==
    { [i \in 1..Len(t) |-> v[t[i]]] :
        t \in [1..Min(amount, Len(v)) -> 1..Len(v)] }

(* SliceRandom::choose_multiple: `amount` elements of different positions, *)
(* in any order; all of them when the slice is shorter                     *)
choose_multiple(v, amount) ==
    { [i \in 1..Len(t) |-> v[t[i]]] : t \in DistinctIndices(Len(v), Min(amount, Len(v))) }

(* Decoys::choose_text and Decoys::text_count *)
choose_text(decoys, amount) == choose_multiple(decoys, amount)

text_count(decoys) == Len(decoys)

(* Iterator::take(n) of a sequence and what by_ref() leaves behind *)
Take(l, n) == SubSeq(l, 1, Min(n, Len(l)))

Rest(l, n) == SubSeq(l, Min(n, Len(l)) + 1, Len(l))

(* rng.gen_range(0..n) *)
gen_range(n) == 0..(n - 1)

(* the index the flashcard branch draws for the correct text, list being   *)
(* the decoys collected                                                    *)
FlashcardCorrectIndex(l) == gen_range(Len(l))

(* count.min(flashcard_count) of the flashcard branch *)
FlashcardCount(s, n) == Min(n, Len(s.flashcards))

(* the cap without the place of the correct answer *)
McCount_no_answer(card, n) == Min(n, text_count(card.decoys))

(* count.min(decoys.text_count() + 1) of the mc-card branch *)
McCount(card, n) == Min(n, text_count(card.decoys) + 1)

(* the break test that waits for one decoy more *)
CollectedEnough_one_more(l, c) == Len(l) = c

(* `list.len() == count - 1` for count >= 1.  For count = 0 the            *)
(* subtraction overflows: see FindDecoy.                                   *)
CollectedEnough(l, c) == Len(l) = c - 1

(* the mc-card branch, after the answer text was sampled: the values the   *)
(* call can return                                                         *)
McCardAnswers(card, n, correct_answer) ==
    LET c == McCount(card, n)
    IN  IF c < 2 THEN { None }
        ELSE { Some(McList(Take(d, ci) \o <<correct_answer>> \o Rest(d, ci), ci)) :
                 d \in choose_text(card.decoys, c - 1), ci \in gen_range(c) }

(* the filter without the comparison with the texts already in the list *)
RejectDecoy_no_contains(answer_side, r, l, text) ==
    matches_text(answer_side, r, text)

(* the filter without the comparison with the answer side *)
RejectDecoy_no_match(answer_side, r, l, text) ==
    Contains(l, text)

(* `answer_side.matches_text(settings, text) || list.contains(&text)`: the  *)
(* text of the random card is not taken as a decoy                         *)
RejectDecoy(answer_side, r, l, text) ==
    matches_text(answer_side, r, text) \/ Contains(l, text)

(* the flashcard branch giving up with a single decoy too *)
FlashcardAnswers_two_decoys(l, text) ==
    IF Len(l) < 2 THEN { None }
    ELSE { Some(McList(Insert(l, ci, text), ci)) : ci \in FlashcardCorrectIndex(l) }

(* the flashcard branch after the loop, l being the decoys collected: the  *)
(* values the call can return                                              *)
FlashcardAnswers(l, text) ==
    IF l = <<>> THEN { None }
    ELSE { Some(McList(Insert(l, ci, text), ci)) : ci \in FlashcardCorrectIndex(l) }

(* Question::is_correct_answer *)
is_correct_answer(s, q, answer) ==
    IF q.ty = "Flashcard"
    THEN matches_text(CardIndex(s.flashcards[q.card], q.side),
                      flashcard_recall_settings(s, q.side), answer)
    ELSE matches_text(s.mc_cards[q.card].answer, s.recall_mc, answer)

(* Question::question: the values the call can return *)
Question_question(s, q) ==
    IF q.ty = "Flashcard"
    THEN any_text(CardIndex(s.flashcards[q.card], Not(q.side)))
    ELSE any_text(s.mc_cards[q.card].question)

(* the answers a player is taken to give *)
Candidates ==
    { <<>>, <<"a">>, <<"A", " ">>, <<" ", "a">>, <<"b">>, <<"B">>, <<"0">>, <<"1">>,
      <<"x">>, <<"X">> }

----------------------------------------------------------------------------
(* Initial states *)

NotCalled == [some |-> FALSE, val |-> "NotCalled"]

NoClone == [flashcards_front |-> <<>>, flashcards_back |-> <<>>, mc_cards |-> <<>>,
            cloned |-> FALSE]

Cloned(it) == [flashcards_front |-> it.flashcards_front,
               flashcards_back |-> it.flashcards_back,
               mc_cards |-> it.mc_cards, cloned |-> TRUE]

(* the clone next() is called on, with the Questions it has yielded *)
NoCursor == [iter |-> NoClone, yielded |-> <<>>]

McIdle ==
    /\ question = None
    /\ count = 0
    /\ pc = "idle"
    /\ correct_text = None
    /\ list = <<>>
    /\ attempts = 0
    /\ result = NotCalled

(* RecallSettings::default() *)
RecallSettingsDefault == RecallSettings("Mc", FALSE)

(* Set::default() *)
SetDefault ==
    [recall_front |-> RecallSettingsDefault, recall_back |-> RecallSettingsDefault,
     recall_mc |-> RecallSettingsDefault, flashcards |-> <<>>, mc_cards |-> <<>>]

MatchIdle ==
    /\ match_rules = RecallSettingsDefault
    /\ stored = <<>>
    /\ input = <<>>

(* a Question of a Set instance: `set` is 1 for the instance in the        *)
(* variable set and 2 for the one in other_set (the number stands for the  *)
(* address), q is the Question as Set::questions yields it                 *)
Operand(instance, q) == [set |-> instance, q |-> q]

NoOperand == [set |-> 0, q |-> None]

EqIdle ==
    /\ other_set = SetDefault
    /\ lhs = NoOperand
    /\ rhs = NoOperand

IterFresh ==
    /\ questions = questions_inner(set, conditions)
    /\ yielded = <<>>
    /\ last_next = NotCalled
    /\ clone = NoClone
    /\ clone_at = 0
    /\ cursor = NoCursor
    /\ for_each_out = None
    /\ fold_out = None

(* set.questions(conditions) for every Set and Conditions *)
Init ==
    /\ set \in Sets
    /\ conditions \in POSSIBLE_CONDITIONS
    /\ overflow_checks = TRUE
    /\ IterFresh
    /\ McIdle
    /\ MatchIdle
    /\ EqIdle

(* a Set, a build profile, and set.questions(INCLUDE_ALL) not yet advanced *)
McInit ==
    /\ set \in Sets
    /\ conditions = INCLUDE_ALL
    /\ overflow_checks \in BOOLEAN
    /\ IterFresh
    /\ McIdle
    /\ MatchIdle
    /\ EqIdle

(* the characters of the texts test_match is run on, and the texts *)
Alphabet == { "a", "A", "b", " " }

Texts == UNION { [1..n -> Alphabet] : n \in 0..MaxTextLen }

(* two texts and the RecallSettings test_match is called on; test_match    *)
(* reads check_caps only                                                   *)
MatchInit ==
    /\ set = SetDefault
    /\ conditions = INCLUDE_ALL
    /\ overflow_checks = TRUE
    /\ IterFresh
    /\ McIdle
    /\ match_rules \in { RecallSettings("Mc", c) : c \in BOOLEAN }
    /\ stored \in Texts
    /\ input \in Texts
    /\ EqIdle

----------------------------------------------------------------------------
(* The traversals of Questions *)

(* questions.next() *)
next ==
    /\ pc = "idle"
    /\ LET r == QuestionsNext(questions)
       IN  /\ questions' = r.iter
           /\ last_next' = r.item
           /\ yielded' = IF r.item.some THEN Append(yielded, r.item.val) ELSE yielded
    /\ UNCHANGED <<set, conditions, clone, clone_at, cursor, for_each_out, fold_out>>
    /\ UNCHANGED mc_vars
    /\ UNCHANGED match_vars
    /\ UNCHANGED eq_vars

(* questions.clone(), twice *)
Clone ==
    /\ pc = "idle"
    /\ ~clone.cloned
    /\ clone' = Cloned(questions)
    /\ clone_at' = Len(yielded)
    /\ cursor' = [iter |-> Cloned(questions), yielded |-> <<>>]
    /\ UNCHANGED <<set, conditions, questions, yielded, last_next, for_each_out, fold_out>>
    /\ UNCHANGED mc_vars
    /\ UNCHANGED match_vars
    /\ UNCHANGED eq_vars

(* next() on a clone that shares its position with the original *)
clone_next_shared ==
    /\ pc = "idle"
    /\ cursor.iter.cloned
    /\ LET r == QuestionsNext(questions)
       IN  /\ questions' = r.iter
           /\ cursor' = [iter |-> Cloned(r.iter),
                         yielded |-> IF r.item.some THEN Append(cursor.yielded, r.item.val)
                                     ELSE cursor.yielded]
    /\ UNCHANGED <<set, conditions, yielded, last_next, clone, clone_at, for_each_out,
                   fold_out>>
    /\ UNCHANGED mc_vars
    /\ UNCHANGED match_vars
    /\ UNCHANGED eq_vars

(* next() on the second clone *)
clone_next ==
    /\ pc = "idle"
    /\ cursor.iter.cloned
    /\ LET r == QuestionsNext(cursor.iter)
       IN  cursor' = [iter |-> r.iter,
                      yielded |-> IF r.item.some THEN Append(cursor.yielded, r.item.val)
                                  ELSE cursor.yielded]
    /\ UNCHANGED <<set, conditions, questions, yielded, last_next, clone, clone_at,
                   for_each_out, fold_out>>
    /\ UNCHANGED mc_vars
    /\ UNCHANGED match_vars
    /\ UNCHANGED eq_vars

(* clone.clone().for_each(|q| out.push(q)) *)
for_each ==
    /\ pc = "idle"
    /\ clone.cloned
    /\ ~for_each_out.some
    /\ for_each_out' = Some(QuestionsForEach(clone))
    /\ UNCHANGED <<set, conditions, questions, yielded, last_next, clone, clone_at, cursor,
                   fold_out>>
    /\ UNCHANGED mc_vars
    /\ UNCHANGED match_vars
    /\ UNCHANGED eq_vars

(* clone.clone().fold(init, |acc, q| ...) counting and recording the items *)
fold ==
    /\ pc = "idle"
    /\ clone.cloned
    /\ ~fold_out.some
    /\ fold_out' = Some(QuestionsFold(clone, [n |-> 0, items |-> <<>>]))
    /\ UNCHANGED <<set, conditions, questions, yielded, last_next, clone, clone_at, cursor,
                   for_each_out>>
    /\ UNCHANGED mc_vars
    /\ UNCHANGED match_vars
    /\ UNCHANGED eq_vars

(* set.save_to_writer(writer): the body is `todo!()`, which panics before  *)
(* anything is written or returned                                         *)
save_to_writer ==
    /\ pc = "idle"
    /\ pc' = "panic"
    /\ UNCHANGED <<set, conditions, overflow_checks, question, count, correct_text, list,
                   attempts, result>>
    /\ UNCHANGED iter_vars
    /\ UNCHANGED match_vars
    /\ UNCHANGED eq_vars

Next == next \/ Clone \/ clone_next \/ for_each \/ fold \/ save_to_writer

Spec == Init /\ [][Next]_vars

----------------------------------------------------------------------------
(* Question::mc_answers, one rng draw at a time *)

(* the Questions set.questions(conditions) yields *)
AllQuestions == { QuestionsForEach(questions)[i] : i \in 1..QuestionsLen(questions) }

(* the flashcard branch up to the loop: sample the correct text *)
McAnswersFlashcard(q, n) ==
    /\ q.ty = "Flashcard"
    /\ \E t \in any_text(CardIndex(set.flashcards[q.card], q.side)) :
          /\ correct_text' = t
          /\ IF t.some
             THEN pc' = "find_decoys" /\ result' = result
             ELSE pc' = "done" /\ result' = None
    /\ question' = Some(q)
    /\ count' = n
    /\ list' = <<>>
    /\ attempts' = 0

(* the whole mc-card branch *)
McAnswersMcCard(q, n) ==
    /\ q.ty = "McCard"
    /\ \E t \in any_text(set.mc_cards[q.card].answer) :
          /\ correct_text' = t
          /\ IF t.some
             THEN result' \in McCardAnswers(set.mc_cards[q.card], n, t.val)
             ELSE result' = None
    /\ pc' = "done"
    /\ question' = Some(q)
    /\ count' = n
    /\ list' = <<>>
    /\ attempts' = 0

(* question.mc_answers(n, rng) is called *)
mc_answers ==
    /\ pc = "idle"
    /\ \E q \in AllQuestions, n \in 0..MaxCount :
          McAnswersFlashcard(q, n) \/ McAnswersMcCard(q, n)
    /\ UNCHANGED <<set, conditions, overflow_checks>>
    /\ UNCHANGED iter_vars
    /\ UNCHANGED match_vars
    /\ UNCHANGED eq_vars

(* where the loop goes after `list.push(text)`: out of it when count - 1   *)
(* decoys are collected, on when not; count - 1 with count = 0 panics in a *)
(* build with overflow checks and wraps to usize::MAX in one without,      *)
(* which no length equals                                                  *)
AfterPush(l, c, n) ==
    IF c = 0
    THEN IF overflow_checks THEN "panic"
         ELSE IF n = FIND_DECOY_ATTEMPTS THEN "collected" ELSE "find_decoys"
    ELSE IF CollectedEnough(l, c) \/ n = FIND_DECOY_ATTEMPTS
         THEN "collected" ELSE "find_decoys"

(* where the loop goes after `continue` *)
AfterContinue(n) == IF n = FIND_DECOY_ATTEMPTS THEN "collected" ELSE "find_decoys"

(* one iteration of `for _ in 0..FIND_DECOY_ATTEMPTS` *)
FindDecoy ==
    /\ pc = "find_decoys"
    /\ attempts < FIND_DECOY_ATTEMPTS
    /\ attempts' = attempts + 1
    /\ LET q == question.val
           side == q.side
           answer_side == CardIndex(set.flashcards[q.card], side)
           c == FlashcardCount(set, count)
       IN  \E random_card \in 1..Len(set.flashcards) :
             IF q.card = random_card
             THEN /\ list' = list
                  /\ pc' = AfterContinue(attempts')
             ELSE \E text \in any_text(CardIndex(set.flashcards[random_card], side)) :
                    IF \/ ~text.some
                       \/ RejectDecoy(answer_side, flashcard_recall_settings(set, side),
                                      list, text.val)
                    THEN /\ list' = list
                         /\ pc' = AfterContinue(attempts')
                    ELSE /\ list' = Append(list, text.val)
                         /\ pc' = AfterPush(list', c, attempts')
    /\ UNCHANGED <<set, conditions, overflow_checks, question, count, correct_text, result>>
    /\ UNCHANGED iter_vars
    /\ UNCHANGED match_vars
    /\ UNCHANGED eq_vars

(* after the loop: None without decoys, else insert the correct text *)
InsertCorrect ==
    /\ pc = "collected"
    /\ result' \in FlashcardAnswers(list, correct_text.val)
    /\ pc' = "done"
    /\ UNCHANGED <<set, conditions, overflow_checks, question, count, correct_text, list, attempts>>
    /\ UNCHANGED iter_vars
    /\ UNCHANGED match_vars
    /\ UNCHANGED eq_vars

(* question.question(rng) *)
ask_question ==
    /\ pc = "idle"
    /\ \E q \in AllQuestions :
          /\ question' = Some(q)
          /\ result' \in Question_question(set, q)
    /\ pc' = "question_returned"
    /\ UNCHANGED <<set, conditions, overflow_checks, count, correct_text, list, attempts>>
    /\ UNCHANGED iter_vars
    /\ UNCHANGED match_vars
    /\ UNCHANGED eq_vars

(* question.is_correct_answer(answer); result holds the bool returned *)
check_answer ==
    /\ pc = "idle"
    /\ \E q \in AllQuestions, answer \in Candidates :
          /\ question' = Some(q)
          /\ input' = answer
          /\ result' = Some(is_correct_answer(set, q, answer))
    /\ pc' = "is_correct_answer_returned"
    /\ UNCHANGED <<set, conditions, overflow_checks, count, correct_text, list, attempts>>
    /\ UNCHANGED iter_vars
    /\ UNCHANGED <<match_rules, stored>>
    /\ UNCHANGED eq_vars

McNext == mc_answers \/ FindDecoy \/ InsertCorrect \/ ask_question \/ check_answer

McSpec == McInit /\ [][McNext]_vars

(* mc_answers is a synchronous call: once entered, its loop and the code   *)
(* after it run on                                                         *)
McFairSpec == McSpec /\ WF_vars(FindDecoy) /\ WF_vars(InsertCorrect)

----------------------------------------------------------------------------
(* RecallSettings::test_match on its own *)

(* match_rules.test_match(stored, input); result holds the bool returned *)
call_test_match ==
    /\ pc = "idle"
    /\ result' = Some(test_match(match_rules, stored, input))
    /\ pc' = "test_match_returned"
    /\ UNCHANGED <<set, conditions, overflow_checks, question, count, correct_text, list, attempts>>
    /\ UNCHANGED iter_vars
    /\ UNCHANGED match_vars
    /\ UNCHANGED eq_vars

MatchNext == call_test_match

MatchSpec == MatchInit /\ [][MatchNext]_vars

----------------------------------------------------------------------------
(* Equality of Questions *)

(* the Set at an address *)
SetAt(instance) == IF instance = 1 THEN set ELSE other_set

(* every Question Set::questions can yield for a Set *)
QuestionsOf(s) ==
    LET all == QuestionsForEach(questions_inner(s, INCLUDE_ALL))
    IN  { all[i] : i \in 1..Len(all) }

(* equality that compares the Sets by content *)
Question_eq_by_content(a, b) ==
    /\ SetAt(a.set) = SetAt(b.set)
    /\ a.q.ty = b.q.ty
    /\ IF a.q.ty = "Flashcard"
       THEN /\ SetAt(a.set).flashcards[a.q.card] = SetAt(b.set).flashcards[b.q.card]
            /\ a.q.side = b.q.side
       ELSE SetAt(a.set).mc_cards[a.q.card] = SetAt(b.set).mc_cards[b.q.card]

(* impl PartialEq for Question: ptr::eq on the Sets, then the derived      *)
(* PartialEq of QuestionTy, which compares the variant and, through the    *)
(* references, the cards by content and the side                           *)
Question_eq(a, b) ==
    /\ a.set = b.set
    /\ a.q.ty = b.q.ty
    /\ IF a.q.ty = "Flashcard"
       THEN /\ SetAt(a.set).flashcards[a.q.card] = SetAt(b.set).flashcards[b.q.card]
            /\ a.q.side = b.q.side
       ELSE SetAt(a.set).mc_cards[a.q.card] = SetAt(b.set).mc_cards[b.q.card]

(* two Set instances; the second has any content with the recall settings  *)
(* of the first, the content of the first included                         *)
EqInit ==
    /\ set \in Sets
    /\ other_set \in { s \in Sets : /\ s.recall_front = set.recall_front
                                     /\ s.recall_back = set.recall_back
                                     /\ s.recall_mc = set.recall_mc }
    /\ lhs = NoOperand
    /\ rhs = NoOperand
    /\ conditions = INCLUDE_ALL
    /\ overflow_checks = TRUE
    /\ IterFresh
    /\ McIdle
    /\ MatchIdle

(* a == b for a Question a of the first instance and a Question b of       *)
(* either instance                                                         *)
eq ==
    /\ pc = "idle"
    /\ \E a \in QuestionsOf(set), i \in 1..2 :
          \E b \in QuestionsOf(SetAt(i)) :
             /\ lhs' = Operand(1, a)
             /\ rhs' = Operand(i, b)
             /\ result' = Some(Question_eq(lhs', rhs'))
    /\ pc' = "eq_returned"
    /\ UNCHANGED <<set, conditions, overflow_checks, question, count, correct_text, list,
                   attempts, other_set>>
    /\ UNCHANGED iter_vars
    /\ UNCHANGED match_vars

EqNext == eq

EqSpec == EqInit /\ [][EqNext]_vars

----------------------------------------------------------------------------
(* Properties of the Questions iterator *)

Enabled(include, rules) == include /\ rules.typ # "None"

IsNone(o) == ~o.some /\ o # NotCalled

(* C1: a freshly built Questions reports as its length the number of       *)
(* flashcards for each flashcard side that is included and whose recall    *)
(* type is not None, plus the number of mc cards if those are included and *)
(* their recall type is not None.                                          *)
C1_FreshLen ==
    last_next = NotCalled =>
        QuestionsLen(questions) =
            (IF Enabled(conditions.include_card_back, set.recall_back)
             THEN Len(set.flashcards) ELSE 0)
          + (IF Enabled(conditions.include_card_front, set.recall_front)
             THEN Len(set.flashcards) ELSE 0)
          + (IF Enabled(conditions.include_mc, set.recall_mc)
             THEN Len(set.mc_cards) ELSE 0)

(* a fresh sequence of a Set with three flashcards and two mc cards, whose *)
(* back recall is included by the caller but switched off by the Set       *)
C1_Witness ==
    /\ last_next = NotCalled
    /\ conditions = INCLUDE_ALL
    /\ set.recall_back.typ = "None"
    /\ Len(set.flashcards) = 3
    /\ Len(set.mc_cards) = 2
    /\ QuestionsLen(questions) = 5

Rank(q) == IF q.ty = "McCard" THEN 3 ELSE IF q.side = Front THEN 2 ELSE 1

(* C2: in the sequence next() yields, back-recall questions come before    *)
(* front-recall questions, which come before multiple-choice questions,    *)
(* and within a category the cards come in the order of the Set.           *)
C2_CategoryOrder ==
    \A i \in 1..Len(yielded) : \A j \in 1..Len(yielded) :
        i < j => \/ Rank(yielded[i]) < Rank(yielded[j])
                 \/ /\ Rank(yielded[i]) = Rank(yielded[j])
                    /\ yielded[i].card < yielded[j].card

(* the traversal of a Set with two flashcards and two mc cards has yielded *)
(* all six questions                                                       *)
C2_Witness ==
    /\ Len(yielded) = 6
    /\ yielded[2] = from_flashcard(2, Back)
    /\ yielded[3] = from_flashcard(1, Front)
    /\ yielded[6] = from_mc_card(2)

IsPrefix(a, b) == Len(a) <= Len(b) /\ a = SubSeq(b, 1, Len(a))

(* what next() returned since the clone was taken *)
SinceClone == SubSeq(yielded, clone_at + 1, Len(yielded))

(* C3: next() on a Questions value, for_each on a clone of it and fold on  *)
(* a clone of it visit the same Questions in the same order and the same   *)
(* number of them, and next() returns None exactly when the bulk traversal *)
(* has no further item.                                                    *)
C3_TraversalsAgree ==
    /\ for_each_out.some =>
          /\ IsPrefix(SinceClone, for_each_out.val)
          /\ (~QuestionsNext(questions).item.some <=> SinceClone = for_each_out.val)
    /\ fold_out.some =>
          /\ IsPrefix(SinceClone, fold_out.val.items)
          /\ (~QuestionsNext(questions).item.some <=> SinceClone = fold_out.val.items)
          /\ fold_out.val.n = Len(fold_out.val.items)
          /\ fold_out.val.n = QuestionsLen(clone)
    /\ (for_each_out.some /\ fold_out.some) => for_each_out.val = fold_out.val.items

(* a fresh sequence of every category was cloned, the clone consumed by    *)
(* for_each and by fold, and the original by next() until None             *)
C3_Witness ==
    /\ clone.cloned /\ clone_at = 0
    /\ for_each_out.some /\ fold_out.some
    /\ IsNone(last_next)
    /\ Len(yielded) = 6
    /\ fold_out.val.n = 6

(* the Questions the remaining next() calls yield *)
RECURSIVE Drain(_)
Drain(it) ==
    LET r == QuestionsNext(it)
    IN  IF r.item.some THEN <<r.item.val>> \o Drain(r.iter) ELSE <<>>

(* C4: at every point of a traversal len() is the number of Questions the  *)
(* remaining next() calls yield; every Question yielded took exactly one   *)
(* off len(); len() is 0 exactly when next() returns None; size_hint() and *)
(* count() report the same number.                                         *)
C4_LenIsRemaining ==
    /\ QuestionsLen(questions) = Len(Drain(questions))
    /\ QuestionsLen(questions) + Len(yielded) = QuestionsLen(questions_inner(set, conditions))
    /\ (QuestionsLen(questions) = 0 <=> ~QuestionsNext(questions).item.some)
    /\ (IsNone(last_next) => QuestionsLen(questions) = 0)
    /\ size_hint(questions) = << Len(Drain(questions)), Some(Len(Drain(questions))) >>
    /\ QuestionsCount(questions) = Len(Drain(questions))
    /\ clone.cloned => QuestionsLen(clone) = Len(Drain(clone))

(* in the middle of a traversal: three questions yielded, the second        *)
(* category begun, four questions left                                     *)
C4_Witness ==
    /\ Len(yielded) = 3
    /\ yielded[3].side = Front
    /\ QuestionsLen(questions) = 4
    /\ last_next.some

----------------------------------------------------------------------------
(* Properties of Question::mc_answers *)

Returned == pc = "done"

ReturnedList == pc = "done" /\ result.some

IsFlashcard == question.some /\ question.val.ty = "Flashcard"

IsMcCard == question.some /\ question.val.ty = "McCard"

(* the CardSide the question asks for *)
TestedSide ==
    IF question.val.ty = "Flashcard"
    THEN CardIndex(set.flashcards[question.val.card], question.val.side)
    ELSE set.mc_cards[question.val.card].answer

Occurrences(l, x) == Cardinality({ i \in 1..Len(l) : l[i] = x })

(* C5: a list returned by mc_answers(count, rng) has at most count         *)
(* entries, for every count from 0 on.                                     *)
C5_LenAtMostCount ==
    ReturnedList => Len(result.val.list) <= count

(* C6: in a list returned by mc_answers the string list.correct() occurs   *)
(* at exactly one index.                                                   *)
C6_CorrectOnce ==
    ReturnedList => Occurrences(result.val.list, correct(result.val)) = 1

(* C7: when mc_answers returns a list, correct_index() is an index of the  *)
(* list, the entry there is the text sampled from the side under test or   *)
(* from the answer field, and is_correct_answer accepts it.                *)
C7_CorrectIndex ==
    ReturnedList =>
        /\ correct_index(result.val) \in 0..(Len(result.val.list) - 1)
        /\ correct_text.some
        /\ correct(result.val) = correct_text.val
        /\ Contains(TestedSide, correct(result.val))
        /\ is_correct_answer(set, question.val, correct(result.val))

(* a flashcard question on a side with two variants returned three entries *)
(* with the correct one in the middle                                      *)
C7_Witness ==
    /\ ReturnedList
    /\ IsFlashcard
    /\ Len(TestedSide) = 2
    /\ Len(result.val.list) = 3
    /\ correct_index(result.val) = 1
    /\ correct(result.val) = TestedSide[2]

(* C8: with d >= 1 decoys collected, the flashcard branch draws the index  *)
(* of the correct answer from the whole range 0..=d of the final list.     *)
C8_WholeRange ==
    (pc = "collected" /\ list # <<>>) =>
        FlashcardCorrectIndex(list) = 0..Len(list)

(* C9: for a flashcard question mc_answers returns absence exactly when    *)
(* the side under test has no variant or no decoy was collected; a list it *)
(* returns has at least two entries: the decoys collected and the answer.  *)
C9_FlashcardAbsence ==
    (Returned /\ IsFlashcard) =>
        /\ ~result.some <=> (TestedSide = <<>> \/ list = <<>>)
        /\ result.some => /\ Len(result.val.list) >= 2
                          /\ Len(result.val.list) = Len(list) + 1

(* the retry budget ran out with one decoy of the two asked for: a list of *)
(* two entries for count 3                                                 *)
C9_Witness ==
    /\ ReturnedList
    /\ IsFlashcard
    /\ attempts = FIND_DECOY_ATTEMPTS
    /\ count = 3
    /\ Len(set.flashcards) = 3
    /\ Len(result.val.list) = 2

(* C10: for an mc-card question with a non-empty answer and k decoys,      *)
(* mc_answers(count, rng) returns absence when min(count, k + 1) < 2 and   *)
(* else a list of exactly min(count, k + 1) entries with the correct index *)
(* inside it; without an answer variant it returns absence.                *)
C10_McCardLen ==
    (Returned /\ IsMcCard) =>
        LET card == set.mc_cards[question.val.card]
            m == Min(count, Len(card.decoys) + 1)
        IN  IF card.answer = <<>> \/ m < 2
            THEN ~result.some
            ELSE /\ result.some
                 /\ Len(result.val.list) = m
                 /\ correct_index(result.val) \in 0..(m - 1)

(* count 5 on a card with three decoys: four entries, the correct one last *)
C10_Witness ==
    /\ ReturnedList
    /\ IsMcCard
    /\ count = 5
    /\ Len(set.mc_cards[question.val.card].decoys) = 3
    /\ Len(result.val.list) = 4
    /\ correct_index(result.val) = 3

(* the flashcards' texts on `side` are single variants no two of which     *)
(* match under the rules of that side                                      *)
SingleNonMatching(s, side) ==
    /\ \A i \in 1..Len(s.flashcards) : Len(CardIndex(s.flashcards[i], side)) = 1
    /\ \A i \in 1..Len(s.flashcards) : \A j \in 1..Len(s.flashcards) :
          i # j => ~test_match(flashcard_recall_settings(s, side),
                               CardIndex(s.flashcards[i], side)[1],
                               CardIndex(s.flashcards[j], side)[1])

(* the case of C11: a flashcard question, count >= 2, n >= 2 flashcards    *)
(* with single, pairwise non-matching texts on the tested side             *)
C11_Case ==
    /\ Returned
    /\ IsFlashcard
    /\ count >= 2
    /\ Len(set.flashcards) >= 2
    /\ SingleNonMatching(set, question.val.side)

----------------------------------------------------------------------------
(* Properties of Question::question and Question::is_correct_answer *)

(* the CardSide shown to the player for the Question q *)
ShownSide(q) ==
    IF q.ty = "McCard" THEN set.mc_cards[q.card].question
    ELSE IF q.side = Front THEN set.flashcards[q.card].back
    ELSE set.flashcards[q.card].front

(* C12: question(rng) returns a variant of the side opposite to the one    *)
(* under test (flashcard) or of the question field (mc card); it returns   *)
(* absence exactly when that CardSide has no variant, and every variant of *)
(* that CardSide is a possible result.                                     *)
C12_QuestionText ==
    /\ pc = "question_returned" =>
          /\ result.some => Contains(ShownSide(question.val), result.val)
          /\ ~result.some <=> ShownSide(question.val) = <<>>
    /\ \A q \in AllQuestions : \A i \in 1..Len(ShownSide(q)) :
          Some(ShownSide(q)[i]) \in Question_question(set, q)

(* a back-recall question showed the second variant of the card's front *)
C12_Witness ==
    /\ pc = "question_returned"
    /\ IsFlashcard
    /\ question.val.side = Back
    /\ Len(set.flashcards[question.val.card].front) = 2
    /\ result = Some(set.flashcards[question.val.card].front[2])
    /\ set.flashcards[question.val.card].back # <<>>

(* the RecallSettings of the axis the question belongs to *)
AxisRules ==
    IF question.val.ty = "McCard" THEN set.recall_mc
    ELSE IF question.val.side = Front THEN set.recall_front
    ELSE set.recall_back

(* C13: is_correct_answer(candidate) is true exactly when the candidate    *)
(* matches at least one variant of the side under test (flashcard) or of   *)
(* the answer field (mc card), and false for every candidate when that     *)
(* CardSide has no variant.                                                *)
C13_AnyVariantMatches ==
    pc = "is_correct_answer_returned" =>
        /\ result.val <=> \E i \in 1..Len(TestedSide) :
                             test_match(AxisRules, TestedSide[i], input)
        /\ TestedSide = <<>> => ~result.val

(* a side with two variants accepted a candidate that is none of them      *)
(* literally                                                               *)
C13_Witness ==
    /\ pc = "is_correct_answer_returned"
    /\ Len(TestedSide) = 2
    /\ ~Contains(TestedSide, input)
    /\ ~test_match(AxisRules, TestedSide[1], input)
    /\ result.val

----------------------------------------------------------------------------
(* Properties of RecallSettings::test_match *)

(* the text between its first and its last character that is no space *)
Strip(s) ==
    LET idx == { i \in 1..Len(s) : s[i] # " " }
    IN  IF idx = {} THEN <<>>
        ELSE SubSeq(s, CHOOSE i \in idx : \A j \in idx : i <= j,
                       CHOOSE i \in idx : \A j \in idx : j <= i)

SameLetter(c, d) ==
    c = d \/ {c, d} \in { {"a", "A"}, {"b", "B"}, {"x", "X"}, {"y", "Y"} }

EqualIgnoringCase(a, b) ==
    Len(a) = Len(b) /\ \A i \in 1..Len(a) : SameLetter(a[i], b[i])

(* C14: test_match ignores the leading and trailing whitespace of both     *)
(* operands in every configuration and ignores letter case exactly when    *)
(* check_caps is false; stored "a" matches "A " and " a" with case         *)
(* ignored, and with case checked does not match "A" but matches " a ".    *)
C14_TrimAndCase ==
    /\ pc = "test_match_returned" =>
          (result.val <=> IF match_rules.check_caps
                          THEN Strip(stored) = Strip(input)
                          ELSE EqualIgnoringCase(Strip(stored), Strip(input)))
    /\ test_match(RecallSettings("Mc", FALSE), <<"a">>, <<"A", " ">>)
    /\ test_match(RecallSettings("Mc", FALSE), <<"a">>, <<" ", "a">>)
    /\ ~test_match(RecallSettings("Mc", TRUE), <<"a">>, <<"A">>)
    /\ test_match(RecallSettings("Mc", TRUE), <<"a">>, <<" ", "a", " ">>)

(* with case checked, stored "a" was matched with " a " *)
C14_Witness ==
    /\ pc = "test_match_returned"
    /\ match_rules.check_caps
    /\ stored = <<"a">>
    /\ input = <<" ", "a", " ">>
    /\ result.val

----------------------------------------------------------------------------
(* Properties of the failure behaviour *)

(* the flashcard branch evaluated `count - 1` with count = 0: a decoy was  *)
(* pushed while the capped count is 0                                      *)
Underflowed ==
    /\ IsFlashcard
    /\ pc \in {"find_decoys", "collected", "done", "panic"}
    /\ FlashcardCount(set, count) = 0
    /\ list # <<>>

(* C15: mc_answers completes with a list or absence, without a panic and   *)
(* without an unsigned underflow in count - 1, for every Question, rng     *)
(* outcome and count >= 0.                                                 *)
C15_NoPanicNoUnderflow ==
    /\ pc # "panic"
    /\ ~Underflowed

(* C16: save_to_writer returns Ok after writing the Set; it does not panic *)
C16_SaveToWriterOk ==
    pc # "panic"

----------------------------------------------------------------------------
(* Properties of the decoy search *)

(* C17: the decoy search makes at most 24 attempts and then stops, for     *)
(* every Set, so that mc_answers always terminates; it stops earlier as    *)
(* soon as count - 1 decoys are collected: while the search is still       *)
(* running the budget is not spent and fewer than count - 1 decoys are in  *)
(* the list (count as capped; the wrapped count - 1 of a build without     *)
(* overflow checks is above every length).                                 *)
C17_BoundedSearch ==
    /\ [](/\ attempts <= FIND_DECOY_ATTEMPTS
          /\ pc = "find_decoys" =>
                /\ attempts < FIND_DECOY_ATTEMPTS
                /\ FlashcardCount(set, count) >= 1 =>
                      Len(list) < FlashcardCount(set, count) - 1
          /\ pc = "collected" =>
                \/ attempts = FIND_DECOY_ATTEMPTS
                \/ Len(list) = FlashcardCount(set, count) - 1)
    /\ (pc = "find_decoys") ~> (pc \in {"done", "panic"})

(* The part of C17 the code keeps: at most 24 attempts, an early stop when *)
(* a push brings the list to count - 1 entries, and termination.           *)
C17_BudgetAndTermination ==
    /\ [](/\ attempts <= FIND_DECOY_ATTEMPTS
          /\ pc = "find_decoys" =>
                /\ attempts < FIND_DECOY_ATTEMPTS
                /\ FlashcardCount(set, count) >= 2 =>
                      Len(list) < FlashcardCount(set, count) - 1
          /\ pc = "collected" =>
                \/ attempts = FIND_DECOY_ATTEMPTS
                \/ Len(list) = FlashcardCount(set, count) - 1)
    /\ (pc = "find_decoys") ~> (pc \in {"done", "panic"})

(* C18: the entries of a list returned for a flashcard question are        *)
(* pairwise distinct under exact string equality, also when several source *)
(* flashcards carry literally the same tested-side text; entries that      *)
(* differ only by case or surrounding whitespace may both be present.      *)
C18_PairwiseDistinct ==
    (ReturnedList /\ IsFlashcard) =>
        \A i, j \in 1..Len(result.val.list) :
            i # j => result.val.list[i] # result.val.list[j]

(* two other flashcards carry the text literally, the list holds it once,  *)
(* next to an entry that differs from it only by case and whitespace       *)
C18_Witness ==
    /\ ReturnedList
    /\ IsFlashcard
    /\ LET q == question.val
           l == result.val.list
       IN  \E t \in { l[k] : k \in 1..Len(l) } :
             /\ \E c, d \in 1..Len(set.flashcards) :
                   /\ c # d /\ c # q.card /\ d # q.card
                   /\ Contains(CardIndex(set.flashcards[c], q.side), t)
                   /\ Contains(CardIndex(set.flashcards[d], q.side), t)
             /\ Occurrences(l, t) = 1
             /\ \E i \in 1..Len(l) :
                   /\ l[i] # t
                   /\ UnicaseEq(Trim(l[i]), Trim(t))

(* C19: in a list returned for a flashcard question on side S, every entry *)
(* other than the one at correct_index is a side-S variant of another      *)
(* flashcard of the Set, and is_correct_answer is false for it.            *)
C19_DecoysAreWrong ==
    (ReturnedList /\ IsFlashcard) =>
        LET q == question.val
            l == result.val.list
        IN  \A i \in 1..Len(l) :
              i # correct_index(result.val) + 1 =>
                /\ \E c \in 1..Len(set.flashcards) :
                      /\ c # q.card
                      /\ Contains(CardIndex(set.flashcards[c], q.side), l[i])
                /\ ~is_correct_answer(set, q, l[i])

(* a list with a decoy was returned on a Set where another flashcard holds *)
(* a text that is no variant of the tested side but matches one            *)
C19_Witness ==
    /\ ReturnedList
    /\ IsFlashcard
    /\ Len(result.val.list) >= 2
    /\ LET q == question.val
       IN  \E c \in 1..Len(set.flashcards) :
             /\ c # q.card
             /\ \E k \in 1..Len(CardIndex(set.flashcards[c], q.side)) :
                  LET t == CardIndex(set.flashcards[c], q.side)[k]
                  IN  /\ ~Contains(TestedSide, t)
                      /\ is_correct_answer(set, q, t)

(* C20: a list returned for a flashcard question never has more entries    *)
(* than the Set has flashcards, for every count and every rng outcome,     *)
(* also when other flashcards hold several variants on the tested side.    *)
C20_LenAtMostFlashcards ==
    (ReturnedList /\ IsFlashcard) =>
        Len(result.val.list) <= Len(set.flashcards)

----------------------------------------------------------------------------
(* The decoys of a multiple-choice card *)

(* the list without the entry at the 0-based position index *)
WithoutCorrect(ml) ==
    SubSeq(ml.list, 1, correct_index(ml)) \o
    SubSeq(ml.list, correct_index(ml) + 2, Len(ml.list))

(* C21: for an mc-card question the non-correct entries of the returned    *)
(* list are drawn from the card's decoy bag without replacement: a string  *)
(* occurs among them at most as often as the bag stores it, and when       *)
(* count >= bag size + 1 every stored decoy is among them.                 *)
C21_WithoutReplacement ==
    (ReturnedList /\ IsMcCard) =>
        LET decoys == set.mc_cards[question.val.card].decoys
            others == WithoutCorrect(result.val)
        IN  /\ \A i \in 1..Len(others) :
                 /\ Contains(decoys, others[i])
                 /\ Occurrences(others, others[i]) <= Occurrences(decoys, others[i])
            /\ count >= text_count(decoys) + 1 =>
                 \A k \in 1..Len(decoys) :
                    Occurrences(others, decoys[k]) = Occurrences(decoys, decoys[k])

(* the whole bag of a card that stores one decoy twice was returned: the   *)
(* list holds that string twice                                            *)
C21_Witness ==
    /\ ReturnedList
    /\ IsMcCard
    /\ LET decoys == set.mc_cards[question.val.card].decoys
           others == WithoutCorrect(result.val)
       IN  /\ count >= text_count(decoys) + 1
           /\ Len(others) = 3
           /\ \E k \in 1..Len(decoys) : Occurrences(decoys, decoys[k]) = 2
           /\ \E i \in 1..Len(others) : Occurrences(others, others[i]) = 2

----------------------------------------------------------------------------
(* Clones of a Questions value *)

(* len() of a Questions value and the Questions it will yield *)
Remaining(it) == << QuestionsLen(it), Drain(it) >>

(* C22: a clone of a Questions value is an independent cursor: next() on   *)
(* the clone, and for_each or fold consuming a clone, leave len() of the   *)
(* original and the Questions it will yield unchanged; next() on the       *)
(* original leaves those of the clones unchanged; no traversal changes the *)
(* Set.                                                                    *)
C22_IndependentCursors ==
    [][ /\ (clone_next \/ for_each \/ fold) =>
              Remaining(questions') = Remaining(questions)
        /\ next =>
              /\ Remaining(cursor'.iter) = Remaining(cursor.iter)
              /\ Remaining(clone') = Remaining(clone)
        /\ (next \/ clone_next \/ for_each \/ fold) => set' = set ]_vars

(* original and clone stand at different places of the sequence: after the *)
(* clone was taken the original yielded one Question and the clone three,  *)
(* and a further clone was consumed by for_each and by fold                *)
C22_Witness ==
    /\ cursor.iter.cloned
    /\ Len(SinceClone) = 1
    /\ Len(cursor.yielded) = 3
    /\ QuestionsLen(questions) = QuestionsLen(cursor.iter) + 2
    /\ QuestionsLen(cursor.iter) > 0
    /\ for_each_out.some /\ fold_out.some

----------------------------------------------------------------------------
(* Equality of Questions *)

Compared == pc = "eq_returned"

(* the card an operand refers to *)
CardOf(o) ==
    IF o.q.ty = "Flashcard" THEN SetAt(o.set).flashcards[o.q.card]
    ELSE SetAt(o.set).mc_cards[o.q.card]

(* both flashcard questions with the same tested side and equal cards, or  *)
(* both multiple-choice questions with equal cards                         *)
EqualVariantData(a, b) ==
    \/ /\ a.q.ty = "Flashcard" /\ b.q.ty = "Flashcard"
       /\ a.q.side = b.q.side
       /\ CardOf(a) = CardOf(b)
    \/ /\ a.q.ty = "McCard" /\ b.q.ty = "McCard"
       /\ CardOf(a) = CardOf(b)

(* C23: two Questions compare equal exactly when they come from the same   *)
(* Set instance (identity, not content) and carry equal variant data; a    *)
(* flashcard question never equals a multiple-choice question, and the     *)
(* back-recall question of a card never equals its front-recall question.  *)
C23_QuestionEq ==
    Compared =>
        /\ result.val <=> (lhs.set = rhs.set /\ EqualVariantData(lhs, rhs))
        /\ lhs.q.ty # rhs.q.ty => ~result.val
        /\ ( /\ lhs.q.ty = "Flashcard" /\ rhs.q.ty = "Flashcard"
             /\ lhs.set = rhs.set /\ lhs.q.card = rhs.q.card
             /\ lhs.q.side # rhs.q.side ) => ~result.val

(* the same Question of two Set instances with equal content compared      *)
(* unequal                                                                 *)
C23_Witness ==
    /\ Compared
    /\ set = other_set
    /\ lhs.set # rhs.set
    /\ lhs.q = rhs.q
    /\ lhs.q.ty = "Flashcard"
    /\ ~result.val

----------------------------------------------------------------------------
(* The recall settings a Question is answered under *)

(* the candidate is no variant of the tested side even after trimming, but *)
(* differs from one only by letter case and surrounding whitespace         *)
DiffersInCase(side, text) ==
    /\ \A i \in 1..Len(side) : Strip(side[i]) # Strip(text)
    /\ \E i \in 1..Len(side) : EqualIgnoringCase(Strip(side[i]), Strip(text))

(* C24: a flashcard question on side S is answered, and its decoys are     *)
(* filtered, under the recall settings of side S (recall_front for Front,  *)
(* recall_back for Back), a multiple-choice question under recall_mc: a    *)
(* candidate that differs from the tested text in case is rejected exactly *)
(* when those settings check case, and no decoy matches the tested side    *)
(* under them.                                                             *)
C24_SideSettings ==
    /\ pc = "is_correct_answer_returned" =>
          /\ result.val <=> \E i \in 1..Len(TestedSide) :
                               test_match(AxisRules, TestedSide[i], input)
          /\ DiffersInCase(TestedSide, input) =>
                (result.val <=> ~AxisRules.check_caps)
    /\ (ReturnedList /\ IsFlashcard) =>
          \A i \in 1..Len(result.val.list) :
             i # correct_index(result.val) + 1 =>
                \A k \in 1..Len(TestedSide) :
                   ~test_match(AxisRules, TestedSide[k], result.val.list[i])

(* case is checked for recall_front only: a front-recall question rejected *)
(* a candidate that differs in case, and a back-recall question of the     *)
(* same Set accepts one                                                    *)
C24_Witness ==
    /\ pc = "is_correct_answer_returned"
    /\ set.recall_front.check_caps
    /\ ~set.recall_back.check_caps
    /\ ~set.recall_mc.check_caps
    /\ IsFlashcard
    /\ question.val.side = Front
    /\ DiffersInCase(TestedSide, input)
    /\ ~result.val
    /\ \E q \in AllQuestions, c \in Candidates :
          /\ q.ty = "Flashcard" /\ q.side = Back
          /\ DiffersInCase(set.flashcards[q.card].back, c)
          /\ is_correct_answer(set, q, c)

====
